---- MODULE Spec2Model ----
(***************************************************************************)
(* Model of plugin/local_plugin/local.py: the LocalPlugin pseudo plugin,   *)
(* which opens one lsm Client per local backend plugin (megaraid, hpsa,    *)
(* arcconf, nfs) and routes every call to the owning connection.           *)
(*                                                                         *)
(* A connection is identified by its position in self.conns: the list is   *)
(* only ever appended to (local.py:151), so the position is a stable       *)
(* object identity.  The element stored at that position is the plugin     *)
(* name the Client was opened for.                                         *)
(***************************************************************************)
EXTENDS Integers, Sequences, FiniteSets, TLC

(* ----------------------------- bounds ---------------------------------- *)
MaxKmods == 2        \* at most this many kernel modules listed in /sys/module
MaxSys == 2          \* system ids are 1..MaxSys
MaxReport == 1       \* systems one connection reports
MaxRegisters == 1    \* plugin_register calls on one router
MaxTeardown == 2     \* plugin_unregister calls received by one connection
MaxDispatch == 1     \* dispatch calls (queries, system-scoped calls, exports) on one router
MaxDisks == 2        \* length of the disk list of volume_raid_create
MaxObjs == 2         \* objects one connection returns from a collection query
MaxTimeoutCalls == 3 \* time_out_set / time_out_get calls in SpecTimeout
MaxReRegisters == 2  \* plugin_register calls on one router in SpecReregister

(* ------------------------- program constants --------------------------- *)
DefaultTmo == 3000
None == 0
FLAG_RSVD == 0

_KMOD_PLUGIN_MAP ==
    [k \in {"megaraid_sas", "hpsa", "aacraid", "nfsd"} |->
        CASE k = "megaraid_sas" -> "megaraid"
          [] k = "hpsa" -> "hpsa"
          [] k = "aacraid" -> "arcconf"
          [] k = "nfsd" -> "nfs"]

supported_plugins == {_KMOD_PLUGIN_MAP[k] : k \in DOMAIN _KMOD_PLUGIN_MAP}

(* ----------------------- results and exceptions ------------------------ *)
\* A call either returns a value, raises LsmError(code) or raises some other
\* Python exception.  src names who raised: "router" or a connection.
Return(v) == [kind |-> "return", code |-> "", src |-> "", val |-> v]
LsmError(code, src) == [kind |-> "LsmError", code |-> code, src |-> src, val |-> <<>>]
Exception(src) == [kind |-> "Exception", code |-> "", src |-> src, val |-> <<>>]

\* who raised: the router itself, a connection, or a plugin that failed to open
Router == "router"
ConnName(c) == ToString(c)

_handle_errors(r) ==
    IF r.kind = "Exception" THEN LsmError("PLUGIN_BUG", r.src) ELSE r

(* ------------------------------ inputs --------------------------------- *)
SysIds == 1..MaxSys
Timeouts == {DefaultTmo, 5000}
RegTimeouts == {5000}
Kmods == {"megaraid_sas", "hpsa", "aacraid", "nfsd", "smartpqi", "ext4"}

\* uri_parse(uri)["parameters"]: the query parameters the router reads.
UriVars ==
    { [k \in D |-> IF k = "only" THEN o ELSE i] :
        D \in SUBSET {"ignore_init_error", "only"},
        o \in supported_plugins \cup {"lvm"},
        i \in {"", "false", "true"} }

get(d, k, default) == IF k \in DOMAIN d THEN d[k] ELSE default

\* bool(str): only the empty string is false.
bool(s) == s /= ""

\* sequences of the elements of S, each once
Perms(S) ==
    { p \in [1..Cardinality(S) -> S] : \A a \in S : \E i \in DOMAIN p : p[i] = a }

Range(f) == { f[i] : i \in DOMAIN f }

\* sequences over S of length at most n without repetition
RECURSIVE SeqsUpTo(_, _)
SeqsUpTo(S, n) ==
    IF n = 0 THEN {<<>>}
    ELSE LET shorter == SeqsUpTo(S, n - 1)
         IN shorter \cup
            UNION { { Append(q, a) : a \in S \ Range(q) } :
                    q \in { s \in shorter : Len(s) = n - 1 } }

(* ------------------------------- state --------------------------------- *)
VARIABLES
    _tmo_ms,        \* self._tmo_ms
    conns,          \* self.conns: plugin name of each opened Client
    syss,           \* self.syss: System objects [id, conn]
    sys_con_map,    \* self.sys_con_map: system id -> connection, None when not a key
    unregistered,   \* self.unregistered
    nfs_conn,       \* self.nfs_conn: connection or None
    conn_tmo,       \* per connection: the timeout the backend holds
    teardowns,      \* per connection: number of plugin_unregister calls received
    alive,          \* FALSE once __del__ has run
    registers,      \* number of plugin_register calls made on the router
    dispatched,     \* number of dispatch calls made on the router
    tmo_given,      \* history: the timeout last given by time_out_set, and by any call
    last            \* the last router call: operation, inputs, backend calls, result

vars == <<_tmo_ms, conns, syss, sys_con_map, unregistered, nfs_conn,
          conn_tmo, teardowns, alive, registers, dispatched, tmo_given, last>>

NoErr == Return(<<>>)
NoCall == [op |-> "none", args |-> <<>>, calls |-> <<>>, result |-> NoErr]

\* LocalPlugin.__init__
Init ==
    /\ _tmo_ms = DefaultTmo
    /\ conns = <<>>
    /\ syss = <<>>
    /\ sys_con_map = [s \in SysIds |-> None]
    /\ unregistered = FALSE
    /\ nfs_conn = None
    /\ conn_tmo = <<>>
    /\ teardowns = <<>>
    /\ alive = TRUE
    /\ registers = 0
    /\ dispatched = 0
    /\ tmo_given = [set |-> None, any |-> None]
    /\ last = NoCall

\* the router object and the backends it owns, as one value
Self ==
    [_tmo_ms |-> _tmo_ms, conns |-> conns, syss |-> syss,
     sys_con_map |-> sys_con_map, unregistered |-> unregistered,
     nfs_conn |-> nfs_conn, conn_tmo |-> conn_tmo, teardowns |-> teardowns]

Store(self) ==
    /\ _tmo_ms' = self._tmo_ms
    /\ conns' = self.conns
    /\ syss' = self.syss
    /\ sys_con_map' = self.sys_con_map
    /\ unregistered' = self.unregistered
    /\ nfs_conn' = self.nfs_conn
    /\ conn_tmo' = self.conn_tmo
    /\ teardowns' = self.teardowns

\* one call made on a backend: Client(...) or a method of connection c
Call(c, func, args, out) == [conn |-> c, func |-> func, args |-> args, out |-> out]

\* a run of a router method: the object, the backend calls made so far, the
\* objects collected so far and the exception that ended it (NoErr if none)
Run(self) == [self |-> self, calls |-> <<>>, acc |-> <<>>, err |-> NoErr]

\* the method returns or raises: the object is stored and the call recorded
Finish(op, args, st, result) ==
    /\ Store(st.self)
    /\ last' = [op |-> op, args |-> args, calls |-> st.calls, result |-> result]
    /\ tmo_given' = IF op = "time_out_set" THEN [set |-> args[1], any |-> args[1]]
                    ELSE IF op = "plugin_register" THEN [tmo_given EXCEPT !.any = args.timeout]
                    ELSE tmo_given

Keys(map) == { s \in SysIds : map[s] /= None }

(* --------------------------- plugin_register --------------------------- *)
\* the hardware inventory: os.listdir("/sys/module/") and the two tool probes
NoHw == [cur_kmods |-> {}, find_arcconf |-> FALSE, find_sacli |-> FALSE]

\* the probes are read only when smartpqi is listed
HwEnvs ==
    { [cur_kmods |-> k, find_arcconf |-> a, find_sacli |-> s] :
        k \in { K \in SUBSET Kmods : Cardinality(K) <= MaxKmods },
        a \in BOOLEAN, s \in BOOLEAN }

HwRead(hw) ==
    "smartpqi" \notin hw.cur_kmods => ~hw.find_arcconf /\ ~hw.find_sacli

\* requested_plugins that probes the hpsa tool before the arcconf tool
requested_plugins_sacli_first(only_plugin, hw) ==
    IF bool(only_plugin) THEN {only_plugin}
    ELSE { _KMOD_PLUGIN_MAP[k] : k \in DOMAIN _KMOD_PLUGIN_MAP \cap hw.cur_kmods }
         \cup (IF "smartpqi" \in hw.cur_kmods
               THEN IF hw.find_sacli THEN {"hpsa"} ELSE {"arcconf"}
               ELSE {})

\* local.py:115-138
requested_plugins(only_plugin, hw) ==
    IF bool(only_plugin) THEN {only_plugin}
    ELSE { _KMOD_PLUGIN_MAP[k] : k \in DOMAIN _KMOD_PLUGIN_MAP \cap hw.cur_kmods }
         \cup (IF "smartpqi" \in hw.cur_kmods
               THEN IF hw.find_arcconf THEN {"arcconf"}
                    ELSE IF hw.find_sacli THEN {"hpsa"}
                    ELSE {"arcconf"}
               ELSE {})

\* outcomes of Client(plugin_uri, None, timeout, flags).  The "<plugin>_"
\* sub-parameters (local.py:99-108, 145-147) only shape the plugin_uri string
\* handed to Client; the connection is recorded by its plugin name.
OpenOutcomes(plugin) ==
    { Return(<<>>), LsmError("INVALID_ARGUMENT", plugin), Exception(plugin) }

\* outcomes of conn.systems()
SysOutcomes(c) ==
    { Return(r) : r \in SeqsUpTo(SysIds, MaxReport) }
    \cup { LsmError("TRANSPORT_COMMUNICATION", ConnName(c)) }

\* open_one without the nfs_conn assignment of local.py:152-153
open_one_no_nfs(plugin_name, out, ignore_init_error, timeout, st) ==
    IF out.kind = "return"
    THEN [st EXCEPT
            !.self.conns = Append(@, plugin_name),
            !.self.conn_tmo = Append(@, timeout),
            !.self.teardowns = Append(@, 0),
            !.calls = Append(@, Call(Len(st.self.conns) + 1, "Client",
                                     <<plugin_name, timeout>>, out))]
    ELSE [st EXCEPT
            !.calls = Append(@, Call(None, "Client", <<plugin_name, timeout>>, out)),
            !.err = IF out.kind = "LsmError" /\ ignore_init_error THEN NoErr ELSE out]

\* local.py:148-158, one pass of the loop body for plugin_name with the
\* outcome out of Client(...)
open_one(plugin_name, out, ignore_init_error, timeout, st) ==
    LET conn == Len(st.self.conns) + 1
    IN IF out.kind = "return"
       THEN [st EXCEPT
               !.self.conns = Append(@, plugin_name),
               !.self.conn_tmo = Append(@, timeout),
               !.self.teardowns = Append(@, 0),
               !.self.nfs_conn = IF plugin_name = "nfs" THEN conn ELSE @,
               !.calls = Append(@, Call(conn, "Client", <<plugin_name, timeout>>, out))]
       ELSE [st EXCEPT
               !.calls = Append(@, Call(None, "Client", <<plugin_name, timeout>>, out)),
               !.err = IF out.kind = "LsmError" /\ ignore_init_error THEN NoErr ELSE out]

\* local.py:144-158, the loop over requested_plugins from position i on:
\* the runs it can take, one per choice of the outcomes of Client(...)
RECURSIVE open_loop(_, _, _, _, _)
open_loop(order, i, ignore_init_error, timeout, st) ==
    IF i > Len(order) \/ st.err /= NoErr THEN {st}
    ELSE UNION { open_loop(order, i + 1, ignore_init_error, timeout,
                           open_one(order[i], out, ignore_init_error, timeout, st)) :
                 out \in OpenOutcomes(order[i]) }

\* add_systems that keeps the first binding of a system id
RECURSIVE add_systems_keep_first(_, _, _)
add_systems_keep_first(self, conn, ids) ==
    IF ids = <<>> THEN self
    ELSE add_systems_keep_first(
           [self EXCEPT !.sys_con_map[Head(ids)] = IF @ = None THEN conn ELSE @,
                        !.syss = Append(@, [id |-> Head(ids), conn |-> conn])],
           conn, Tail(ids))

\* local.py:160-162, the systems one connection reported
RECURSIVE add_systems(_, _, _)
add_systems(self, conn, ids) ==
    IF ids = <<>> THEN self
    ELSE add_systems(
           [self EXCEPT !.sys_con_map[Head(ids)] = conn,
                        !.syss = Append(@, [id |-> Head(ids), conn |-> conn])],
           conn, Tail(ids))

\* local.py:159-162, the loop over self.conns from connection i on
RECURSIVE systems_loop(_, _)
systems_loop(i, st) ==
    IF i > Len(st.self.conns) \/ st.err /= NoErr THEN {st}
    ELSE UNION { systems_loop(i + 1,
                   [st EXCEPT
                      !.calls = Append(@, Call(i, "systems", <<>>, out)),
                      !.self = IF out.kind = "return" THEN add_systems(@, i, out.val) ELSE @,
                      !.err = IF out.kind = "return" THEN NoErr ELSE out]) :
                 out \in SysOutcomes(i) }

\* local.py:163-165
check_systems(st) ==
    IF st.err = NoErr /\ Keys(st.self.sys_con_map) = {}
    THEN [st EXCEPT !.err = LsmError("NO_SUPPORT", Router)]
    ELSE st

\* activate that falls back to every supported plugin when nothing is selected
activate_try_all(requested, ignore_init_error, timeout, st) ==
    UNION { UNION { { check_systems(s2) : s2 \in systems_loop(1, s1) } :
                    s1 \in open_loop(order, 1, ignore_init_error, timeout, st) } :
            order \in Perms(IF requested = {} THEN supported_plugins ELSE requested) }

\* local.py:140-165, from the selected plugins on
activate(requested, ignore_init_error, timeout, st) ==
    IF requested = {}
    THEN {[st EXCEPT !.err = LsmError("NO_SUPPORT", Router)]}
    ELSE UNION { UNION { { check_systems(s2) : s2 \in systems_loop(1, s1) } :
                         s1 \in open_loop(order, 1, ignore_init_error, timeout, st) } :
                 order \in Perms(requested) }

\* the inputs of one plugin_register call that the code reads
RegArgs(timeout, euid, uri_vars, hw) ==
    [timeout |-> timeout, euid |-> euid, uri_vars |-> uri_vars, hw |-> hw]

\* check_euid that lets every caller through
check_euid_skip(euid) == NoErr

\* local.py:91-94
check_euid(euid) ==
    IF euid /= 0 THEN LsmError("INVALID_ARGUMENT", Router) ELSE NoErr

\* the body of LocalPlugin.plugin_register, local.py:86-165, with the uri
\* parameters drawn from uris and the hardware inventory from hws
register_call(uris, hws) ==
    \E timeout \in RegTimeouts, euid \in {0, 1000} :
        LET st0 == Run([Self EXCEPT !._tmo_ms = timeout])
            invalid == LsmError("INVALID_ARGUMENT", Router)
        IN
        IF check_euid(euid) /= NoErr
        THEN Finish("plugin_register", RegArgs(timeout, euid, <<>>, NoHw), st0,
                    check_euid(euid))
        ELSE
          \E uri_vars \in uris :
            LET ignore_init_error == bool(get(uri_vars, "ignore_init_error", "false"))
                only_plugin == get(uri_vars, "only", "")
            IN
            IF bool(only_plugin) /\ only_plugin \notin supported_plugins
            THEN Finish("plugin_register", RegArgs(timeout, euid, uri_vars, NoHw), st0, invalid)
            ELSE
              \E hw \in IF bool(only_plugin) THEN {NoHw} ELSE hws :
              \E st \in activate(requested_plugins(only_plugin, hw),
                                 ignore_init_error, timeout, st0) :
                Finish("plugin_register", RegArgs(timeout, euid, uri_vars, hw), st,
                       _handle_errors(st.err))

\* LocalPlugin.plugin_register, local.py:86-165
plugin_register ==
    /\ alive
    /\ registers < MaxRegisters
    /\ registers' = registers + 1
    /\ UNCHANGED <<alive, dispatched>>
    /\ register_call(UriVars, { h \in HwEnvs : HwRead(h) })

(* -------------------------- plugin_unregister -------------------------- *)
\* outcomes of conn.plugin_unregister()
TeardownOutcomes(c) == { NoErr, LsmError("TRANSPORT_COMMUNICATION", ConnName(c)) }

\* local.py:169-170, the loop over self.conns from connection i on
RECURSIVE unregister_loop(_, _)
unregister_loop(i, st) ==
    IF i > Len(st.self.conns) \/ st.err /= NoErr THEN {st}
    ELSE UNION { unregister_loop(i + 1,
                   [st EXCEPT !.self.teardowns[i] = @ + 1,
                              !.calls = Append(@, Call(i, "plugin_unregister", <<>>, out)),
                              !.err = out]) :
                 out \in TeardownOutcomes(i) }

\* unregister_runs that also drains self.conns once every teardown is done
unregister_runs_drain(self) ==
    { IF st.err = NoErr
      THEN [st EXCEPT !.self.unregistered = TRUE, !.self.conns = <<>>,
                      !.self.conn_tmo = <<>>, !.self.teardowns = <<>>]
      ELSE st :
      st \in unregister_loop(1, Run(self)) }

\* local.py:169-171
unregister_runs(self) ==
    { IF st.err = NoErr THEN [st EXCEPT !.self.unregistered = TRUE] ELSE st :
      st \in unregister_loop(1, Run(self)) }

\* LocalPlugin.plugin_unregister, local.py:167-171
plugin_unregister ==
    /\ alive
    /\ \A c \in DOMAIN teardowns : teardowns[c] < MaxTeardown
    /\ \E st \in unregister_runs(Self) :
         Finish("plugin_unregister", <<>>, st, _handle_errors(st.err))
    /\ UNCHANGED <<alive, registers, dispatched>>

\* LocalPlugin.__del__, local.py:55-57
__del__ ==
    /\ alive
    /\ alive' = FALSE
    /\ \A c \in DOMAIN teardowns : teardowns[c] < MaxTeardown
    /\ IF ~unregistered
       THEN \E st \in unregister_runs(Self) :
              Finish("__del__", <<>>, st, _handle_errors(st.err))
       ELSE Finish("__del__", <<>>, Run(Self), NoErr)
    /\ UNCHANGED <<registers, dispatched>>

(* ------------------------------- _query -------------------------------- *)
NoKey == "None"      \* search_key=None
QueryFuncs == {"disks", "pools", "volumes", "batteries", "fs"}

\* the objects connection c returns from a collection query
Obj(c, i) == [id |-> i, system_id |-> i, conn |-> c]
Objs(c) == [i \in 1..MaxObjs |-> Obj(c, i)]

\* outcomes of getattr(conn, query_func_name)(flags=flags)
QueryOutcomes(c) ==
    { Return(Objs(c)),
      LsmError("NO_SUPPORT", ConnName(c)),
      LsmError("TRANSPORT_COMMUNICATION", ConnName(c)),
      Exception(ConnName(c)) }

\* lsm.search_property: keep the objects whose attribute search_key equals
\* search_value; every object when search_key is None
search_property(lsm_objs, search_key, search_value) ==
    IF search_key = NoKey THEN lsm_objs
    ELSE SelectSeq(lsm_objs, LAMBDA o : o[search_key] = search_value)

\* query_one where NO_SUPPORT is raised like every other error
query_one_strict(i, query_func_name, flags, out, st) ==
    [st EXCEPT
       !.calls = Append(@, Call(i, query_func_name, <<flags>>, out)),
       !.acc = IF out.kind = "return" THEN @ \o out.val ELSE @,
       !.err = IF out.kind = "return" THEN NoErr ELSE out]

\* local.py:72-78, one pass of the loop body for connection i with the
\* outcome out of the backend query
query_one(i, query_func_name, flags, out, st) ==
    [st EXCEPT
       !.calls = Append(@, Call(i, query_func_name, <<flags>>, out)),
       !.acc = IF out.kind = "return" THEN @ \o out.val ELSE @,
       !.err = IF out.kind = "return" \/ (out.kind = "LsmError" /\ out.code = "NO_SUPPORT")
               THEN NoErr ELSE out]

\* local.py:71-78, the loop over self.conns from connection i on
RECURSIVE query_loop(_, _, _, _)
query_loop(i, query_func_name, flags, st) ==
    IF i > Len(st.self.conns) \/ st.err /= NoErr THEN {st}
    ELSE UNION { query_loop(i + 1, query_func_name, flags,
                            query_one(i, query_func_name, flags, out, st)) :
                 out \in QueryOutcomes(i) }

\* _query where a system_id search goes to the first connection
_query_first_conn(self, query_func_name, search_key, search_value, flags) ==
    IF search_key = "system_id"
    THEN IF search_value \notin Keys(self.sys_con_map)
         THEN { [Run(self) EXCEPT !.err = Return(<<>>)] }
         ELSE { [Run(self) EXCEPT
                   !.calls = <<Call(1, query_func_name, <<flags>>, out)>>,
                   !.err = out] :
                out \in QueryOutcomes(1) }
    ELSE { IF st.err = NoErr
           THEN [st EXCEPT !.err = Return(search_property(st.acc, search_key, search_value))]
           ELSE st :
           st \in query_loop(1, query_func_name, flags, Run(self)) }

\* _query where a system_id that is no key raises as _exec does
_query_miss_raises(self, query_func_name, search_key, search_value, flags) ==
    IF search_key = "system_id"
    THEN IF search_value \notin Keys(self.sys_con_map)
         THEN { [Run(self) EXCEPT !.err = LsmError("NOT_FOUND_SYSTEM", Router)] }
         ELSE { [Run(self) EXCEPT
                   !.calls = <<Call(self.sys_con_map[search_value], query_func_name,
                                    <<flags>>, out)>>,
                   !.err = out] :
                out \in QueryOutcomes(self.sys_con_map[search_value]) }
    ELSE { IF st.err = NoErr
           THEN [st EXCEPT !.err = Return(search_property(st.acc, search_key, search_value))]
           ELSE st :
           st \in query_loop(1, query_func_name, flags, Run(self)) }

\* LocalPlugin._query, local.py:59-79: the runs it can take; st.err holds
\* what it returns or raises
_query(self, query_func_name, search_key, search_value, flags) ==
    IF search_key = "system_id"
    THEN IF search_value \notin Keys(self.sys_con_map)
         THEN { [Run(self) EXCEPT !.err = Return(<<>>)] }
         ELSE LET conn == self.sys_con_map[search_value]
              IN { [Run(self) EXCEPT
                      !.calls = <<Call(conn, query_func_name, <<flags>>, out)>>,
                      !.err = out] :
                   out \in QueryOutcomes(conn) }
    ELSE { IF st.err = NoErr
           THEN [st EXCEPT !.err = Return(search_property(st.acc, search_key, search_value))]
           ELSE st :
           st \in query_loop(1, query_func_name, flags, Run(self)) }

\* the (search_key, search_value) pairs tried
Searches ==
    { <<NoKey, 0>> }
    \cup { <<"system_id", v>> : v \in 1..(MaxSys + 1) }
    \cup { <<"id", v>> : v \in 1..MaxObjs }

Dispatch ==
    /\ alive
    /\ dispatched < MaxDispatch
    /\ dispatched' = dispatched + 1
    /\ UNCHANGED <<alive, registers>>

\* LocalPlugin.disks / pools / volumes / batteries / fs,
\* local.py:206-232 and 323-325
query(query_func_name) ==
    /\ Dispatch
    /\ \E search \in Searches :
       \E st \in _query(Self, query_func_name, search[1], search[2], FLAG_RSVD) :
         Finish(query_func_name,
                [search_key |-> search[1], search_value |-> search[2], flags |-> FLAG_RSVD],
                st, _handle_errors(st.err))

disks == query("disks")
pools == query("pools")
volumes == query("volumes")
batteries == query("batteries")
fs == query("fs")

(* -------------------------------- _exec -------------------------------- *)
\* outcomes of getattr(conn, func_name)(**parameters): the backend's value
\* names the connection, the method and the parameters it was given
ExecOutcomes(c, func_name, parameters) ==
    { Return(<<c, func_name, parameters>>),
      LsmError("NO_SUPPORT", ConnName(c)),
      Exception(ConnName(c)) }

\* _exec without the membership test of local.py:82-83: the dict lookup
\* raises KeyError
_exec_unchecked(self, sys_id, func_name, parameters) ==
    IF sys_id \notin Keys(self.sys_con_map)
    THEN { [Run(self) EXCEPT !.err = Exception(Router)] }
    ELSE { [Run(self) EXCEPT
              !.calls = <<Call(self.sys_con_map[sys_id], func_name, parameters, out)>>,
              !.err = out] :
           out \in ExecOutcomes(self.sys_con_map[sys_id], func_name, parameters) }

\* LocalPlugin._exec, local.py:81-84
_exec(self, sys_id, func_name, parameters) ==
    IF sys_id \notin Keys(self.sys_con_map)
    THEN { [Run(self) EXCEPT !.err = LsmError("NOT_FOUND_SYSTEM", Router)] }
    ELSE LET conn == self.sys_con_map[sys_id]
         IN { [Run(self) EXCEPT
                 !.calls = <<Call(conn, func_name, parameters, out)>>,
                 !.err = out] :
              out \in ExecOutcomes(conn, func_name, parameters) }

\* operands: a System, and a Volume, Pool or Disk with its system_id
OperandSysIds == 1..(MaxSys + 1)
System(s) == [id |-> s]
Owned(s) == [id |-> 1, system_id |-> s]
CachePolicy == "policy"

\* the methods that route on system.id, local.py:195-200 and 248-253
SystemOps == {"capabilities", "volume_raid_create_cap_get"}
\* the methods that route on volume.system_id, local.py:234-239, 273-278, 316-321
VolumeOps == {"volume_raid_info", "volume_cache_info", "volume_delete"}
\* the cache updates, local.py:280-314, with the name of their second parameter
CacheOps == {"volume_physical_disk_cache_update", "volume_write_cache_policy_update",
             "volume_read_cache_policy_update"}
CacheParam(op) ==
    CASE op = "volume_physical_disk_cache_update" -> "pdc"
      [] op = "volume_write_cache_policy_update" -> "wcp"
      [] op = "volume_read_cache_policy_update" -> "rcp"

\* the parameters dict each method builds
Parameters(op, operand, flags) ==
    CASE op \in SystemOps -> <<"system", operand, "flags", flags>>
      [] op \in VolumeOps -> <<"volume", operand, "flags", flags>>
      [] op = "pool_member_info" -> <<"pool", operand, "flags", flags>>
      [] op \in CacheOps ->
           <<"volume", operand, CacheParam(op), CachePolicy, "flags", flags>>

\* the system id each method routes on
ExecOps == SystemOps \cup VolumeOps \cup CacheOps \cup {"pool_member_info"}
RouteId(op, operand) == IF op \in SystemOps THEN operand.id ELSE operand.system_id

\* LocalPlugin.capabilities, volume_raid_info, pool_member_info,
\* volume_raid_create_cap_get, volume_cache_info, the three cache updates
\* and volume_delete
exec(op) ==
    /\ Dispatch
    /\ \E s \in OperandSysIds :
        LET operand == IF op \in SystemOps THEN System(s) ELSE Owned(s)
        IN \E st \in _exec(Self, RouteId(op, operand), op,
                           Parameters(op, operand, FLAG_RSVD)) :
             Finish(op,
                    IF op \in CacheOps THEN <<operand, CachePolicy, FLAG_RSVD>>
                    ELSE <<operand, FLAG_RSVD>>,
                    st, _handle_errors(st.err))

capabilities == exec("capabilities")
volume_raid_info == exec("volume_raid_info")
pool_member_info == exec("pool_member_info")
volume_raid_create_cap_get == exec("volume_raid_create_cap_get")
volume_cache_info == exec("volume_cache_info")
volume_physical_disk_cache_update == exec("volume_physical_disk_cache_update")
volume_write_cache_policy_update == exec("volume_write_cache_policy_update")
volume_read_cache_policy_update == exec("volume_read_cache_policy_update")
volume_delete == exec("volume_delete")

\* the disk lists tried: the system_id of each disk
RECURSIVE AllSeqs(_, _)
AllSeqs(S, n) ==
    IF n = 0 THEN {<<>>}
    ELSE LET shorter == AllSeqs(S, n - 1)
         IN shorter \cup
            { Append(q, a) : q \in { s \in shorter : Len(s) = n - 1 }, a \in S }

DiskLists == { [i \in DOMAIN q |-> [id |-> i, system_id |-> q[i]]] :
               q \in AllSeqs(OperandSysIds, MaxDisks) }

\* volume_raid_create routing on the last disk of the list
raid_create_last_disk(self, name, raid_type, disk_list, strip_size, flags) ==
    IF disk_list = <<>>
    THEN { [Run(self) EXCEPT !.err = LsmError("INVALID_ARGUMENT", Router)] }
    ELSE _exec(self, disk_list[Len(disk_list)].system_id, "volume_raid_create",
               <<"name", name, "raid_type", raid_type, "disks", disk_list,
                 "strip_size", strip_size, "flags", flags>>)

\* the body of volume_raid_create, local.py:262-271
raid_create_runs(self, name, raid_type, disk_list, strip_size, flags) ==
    IF disk_list = <<>>
    THEN { [Run(self) EXCEPT !.err = LsmError("INVALID_ARGUMENT", Router)] }
    ELSE _exec(self, disk_list[1].system_id, "volume_raid_create",
               <<"name", name, "raid_type", raid_type, "disks", disk_list,
                 "strip_size", strip_size, "flags", flags>>)

\* LocalPlugin.volume_raid_create, local.py:255-271
volume_raid_create ==
    /\ Dispatch
    /\ \E disk_list \in DiskLists :
       \E st \in raid_create_runs(Self, "vol", 1, disk_list, 64, FLAG_RSVD) :
         Finish("volume_raid_create", <<"vol", 1, disk_list, 64, FLAG_RSVD>>,
                st, _handle_errors(st.err))

(* ------------------------------- exports ------------------------------- *)
ExportOps == {"exports", "export_fs", "export_remove", "export_auth"}

\* the arguments each export method is called with
ExportArgs(op) ==
    CASE op = "exports" -> <<NoKey, 0, FLAG_RSVD>>
      [] op = "export_fs" -> <<"fs1", "/mnt", <<"h1">>, <<"h2">>, <<"h3">>, 7, 8, "sys", "opt", FLAG_RSVD>>
      [] op = "export_remove" -> <<"export1", FLAG_RSVD>>
      [] op = "export_auth" -> <<FLAG_RSVD>>

\* the body of exports / export_fs / export_remove / export_auth,
\* local.py:332-337, 351-358, 362-367, 370-375
export_runs(self, op, args) ==
    IF self.nfs_conn /= None
    THEN { [Run(self) EXCEPT
              !.calls = <<Call(self.nfs_conn, op, args, out)>>,
              !.err = out] :
           out \in ExecOutcomes(self.nfs_conn, op, args) }
    ELSE { [Run(self) EXCEPT !.err = LsmError("NO_SUPPORT", Router)] }

\* export_auth is the one public method without the _handle_errors decorator
Decorated(op) == op /= "export_auth"

export(op) ==
    /\ Dispatch
    /\ \E st \in export_runs(Self, op, ExportArgs(op)) :
         Finish(op, ExportArgs(op), st,
                IF Decorated(op) THEN _handle_errors(st.err) ELSE st.err)

exports == export("exports")
export_fs == export("export_fs")
export_remove == export("export_remove")
export_auth == export("export_auth")

(* ------------------------- the remaining methods ----------------------- *)
\* LocalPlugin.systems, local.py:202-204
systems ==
    /\ Dispatch
    /\ Finish("systems", <<FLAG_RSVD>>, Run(Self), Return(syss))

\* LocalPlugin.job_status, local.py:173-175
job_status ==
    /\ Dispatch
    /\ Finish("job_status", <<"job1", FLAG_RSVD>>, Run(Self), LsmError("NO_SUPPORT", Router))

\* LocalPlugin.job_free, local.py:177-179
job_free ==
    /\ Dispatch
    /\ Finish("job_free", <<"job1", FLAG_RSVD>>, Run(Self), LsmError("NO_SUPPORT", Router))

\* LocalPlugin.plugin_info, local.py:181-183
plugin_info ==
    /\ Dispatch
    /\ Finish("plugin_info", <<FLAG_RSVD>>, Run(Self),
              Return(<<"Local Pseudo Plugin", "VERSION">>))

\* outcomes of conn.time_out_set(ms, flags)
TmoOutcomes(c) == { NoErr, LsmError("INVALID_ARGUMENT", ConnName(c)) }

\* local.py:188-189, the loop over self.conns from connection i on
RECURSIVE time_out_loop(_, _, _, _)
time_out_loop(i, ms, flags, st) ==
    IF i > Len(st.self.conns) \/ st.err /= NoErr THEN {st}
    ELSE UNION { time_out_loop(i + 1, ms, flags,
                   [st EXCEPT
                      !.calls = Append(@, Call(i, "time_out_set", <<ms, flags>>, out)),
                      !.self.conn_tmo[i] = IF out = NoErr THEN ms ELSE @,
                      !.err = out]) :
                 out \in TmoOutcomes(i) }

\* time_out_runs without the assignment of local.py:187
time_out_runs_no_store(self, ms, flags) ==
    time_out_loop(1, ms, flags, Run(self))

\* time_out_runs that assigns self._tmo_ms only once every connection took ms
time_out_runs_store_last(self, ms, flags) ==
    { IF st.err = NoErr THEN [st EXCEPT !.self._tmo_ms = ms] ELSE st :
      st \in time_out_loop(1, ms, flags, Run(self)) }

\* local.py:187-189
time_out_runs(self, ms, flags) ==
    time_out_loop(1, ms, flags, Run([self EXCEPT !._tmo_ms = ms]))

\* the body of LocalPlugin.time_out_set, local.py:185-189
time_out_set_call ==
    \E ms \in Timeouts :
    \E st \in time_out_runs(Self, ms, FLAG_RSVD) :
      Finish("time_out_set", <<ms, FLAG_RSVD>>, st, _handle_errors(st.err))

\* the body of LocalPlugin.time_out_get, local.py:191-193
time_out_get_call ==
    Finish("time_out_get", <<FLAG_RSVD>>, Run(Self), Return(<<_tmo_ms>>))

\* LocalPlugin.time_out_set, local.py:185-189
time_out_set ==
    /\ Dispatch
    /\ time_out_set_call

\* LocalPlugin.time_out_get, local.py:191-193
time_out_get ==
    /\ Dispatch
    /\ time_out_get_call

Lifecycle ==
    \/ plugin_register
    \/ plugin_unregister
    \/ __del__

Queries ==
    \/ disks
    \/ pools
    \/ volumes
    \/ batteries
    \/ fs

SystemScoped ==
    \/ capabilities
    \/ volume_raid_info
    \/ pool_member_info
    \/ volume_raid_create_cap_get
    \/ volume_raid_create
    \/ volume_cache_info
    \/ volume_physical_disk_cache_update
    \/ volume_write_cache_policy_update
    \/ volume_read_cache_policy_update
    \/ volume_delete

Exports ==
    \/ exports
    \/ export_fs
    \/ export_remove
    \/ export_auth

Others ==
    \/ systems
    \/ job_status
    \/ job_free
    \/ plugin_info
    \/ time_out_set
    \/ time_out_get

Next ==
    \/ Lifecycle
    \/ Queries
    \/ SystemScoped
    \/ Exports
    \/ Others

Spec == Init /\ [][Next]_vars

(* ---------------------- sequences of timeout calls ---------------------- *)
\* the lifecycle calls with up to MaxTimeoutCalls calls of time_out_set and
\* time_out_get in any order, and no other dispatch call
TimeoutDispatch ==
    /\ alive
    /\ dispatched < MaxTimeoutCalls
    /\ dispatched' = dispatched + 1
    /\ UNCHANGED <<alive, registers>>

time_out_set_seq ==
    /\ TimeoutDispatch
    /\ time_out_set_call

time_out_get_seq ==
    /\ TimeoutDispatch
    /\ time_out_get_call

NextTimeout ==
    \/ Lifecycle
    \/ time_out_set_seq
    \/ time_out_get_seq

SpecTimeout == Init /\ [][NextTimeout]_vars

(* ------------------- repeated plugin_register calls --------------------- *)
\* up to MaxReRegisters plugin_register calls on one router, with plugin_unregister
\* and __del__ in between; the inputs are narrowed to the uris without
\* ignore_init_error and to the inventories over aacraid and smartpqi
ReUriVars == { u \in UriVars : "ignore_init_error" \notin DOMAIN u }

ReHwEnvs == { h \in HwEnvs : HwRead(h) /\ h.cur_kmods \subseteq {"aacraid", "smartpqi"} }

plugin_register_again ==
    /\ alive
    /\ registers < MaxReRegisters
    /\ registers' = registers + 1
    /\ UNCHANGED <<alive, dispatched>>
    /\ register_call(ReUriVars, ReHwEnvs)

NextReregister ==
    \/ plugin_register_again
    \/ plugin_unregister
    \/ __del__

SpecReregister == Init /\ [][NextReregister]_vars

(* ------------------------------- claims -------------------------------- *)
\* the Client(...) calls of the last plugin_register that raised LsmError
FailedOpens ==
    { i \in DOMAIN last.calls :
        last.calls[i].func = "Client" /\ last.calls[i].out.kind = "LsmError" }

\* the connections the last plugin_register opened
Opened ==
    { last.calls[i].conn : i \in { j \in DOMAIN last.calls :
        last.calls[j].func = "Client" /\ last.calls[j].out.kind = "return" } }

IgnoreFlag == get(last.args.uri_vars, "ignore_init_error", "false")

\* C1: in plugin_register, when ignore_init_error is absent or given as false
\* and the open of a selected backend fails, register fails with that
\* backend's error; when it is given as true the failing backend is skipped
\* and register succeeds if the remaining backends report a system.
C1_IgnoreInitError ==
    (last.op = "plugin_register" /\ FailedOpens /= {}) =>
        /\ IgnoreFlag = "false" =>
             \E i \in FailedOpens : last.result = last.calls[i].out
        /\ IgnoreFlag = "true" =>
             /\ \A i \in FailedOpens : last.result /= last.calls[i].out
             /\ (Keys(sys_con_map) /= {} /\ last.calls[Len(last.calls)].out.kind = "return")
                  => last.result = NoErr

\* C2: whenever plugin_register fails, every connection it opened has been
\* closed and none of them is left in nfs_conn, the systems list or the
\* routing table.
C2_FailedRegisterLeavesNothing ==
    (last.op = "plugin_register" /\ last.result.kind /= "return") =>
        \A c \in Opened :
            /\ teardowns[c] >= 1
            /\ nfs_conn /= c
            /\ \A s \in SysIds : sys_con_map[s] /= c
            /\ \A j \in DOMAIN syss : syss[j].conn /= c

\* C3: plugin_unregister is idempotent: once a plugin_unregister has
\* succeeded, a further call leaves the router state as it is and calls
\* teardown on no connection.
C3_UnregisterIdempotent ==
    [][(unregistered /\ plugin_unregister) =>
         /\ teardowns' = teardowns
         /\ <<_tmo_ms, conns, syss, sys_con_map, unregistered, nfs_conn>>' =
            <<_tmo_ms, conns, syss, sys_con_map, unregistered, nfs_conn>>]_vars

\* what the router returns for the outcome out of the one connection called
PassedThrough(out) ==
    IF out.kind = "Exception" THEN last.result = LsmError("PLUGIN_BUG", out.src)
    ELSE last.result = out

\* C4: a collection query with search_key = system_id and a search_value
\* that is a key of the routing table makes exactly one backend call, to the
\* connection the table binds to that value, and returns that connection's
\* result.
C4_QueryBySystemIdHit ==
    (/\ last.op \in QueryFuncs
     /\ last.args.search_key = "system_id"
     /\ last.args.search_value \in Keys(sys_con_map)) =>
        /\ Len(last.calls) = 1
        /\ last.calls[1].conn = sys_con_map[last.args.search_value]
        /\ last.calls[1].func = last.op
        /\ PassedThrough(last.calls[1].out)

C4_Witness ==
    /\ last.op = "disks"
    /\ last.args.search_key = "system_id"
    /\ last.args.search_value \in Keys(sys_con_map)
    /\ Len(conns) = 2
    /\ sys_con_map[last.args.search_value] = 2
    /\ last.result = Return(Objs(2))

\* C5: a collection query with search_key = system_id and a search_value
\* that is no key of the routing table returns the empty sequence, raises
\* nothing and calls no connection.
C5_QueryBySystemIdMiss ==
    (/\ last.op \in QueryFuncs
     /\ last.args.search_key = "system_id"
     /\ last.args.search_value \notin Keys(sys_con_map)) =>
        /\ last.result = Return(<<>>)
        /\ last.calls = <<>>

C5_Witness ==
    /\ last.op = "pools"
    /\ last.args.search_key = "system_id"
    /\ last.args.search_value \notin Keys(sys_con_map)
    /\ Keys(sys_con_map) /= {}
    /\ Len(conns) = 2
    /\ last.result = Return(<<>>)

\* the results of the connections that returned, joined in call order
RECURSIVE Joined(_)
Joined(calls) ==
    IF calls = <<>> THEN <<>>
    ELSE (IF Head(calls).out.kind = "return" THEN Head(calls).out.val ELSE <<>>)
         \o Joined(Tail(calls))

Tolerated(out) ==
    out.kind = "return" \/ (out.kind = "LsmError" /\ out.code = "NO_SUPPORT")

\* C6: a collection query without a system_id filter calls the connections
\* once each in ConnectionSet order; one that raises NO_SUPPORT contributes
\* nothing and the iteration goes on, so that the result is the filtered
\* concatenation, in connection order, of the results of those that
\* returned; any other error ends the call at that connection and surfaces.
C6_FanOut ==
    (last.op \in QueryFuncs /\ last.args.search_key /= "system_id") =>
        LET n == Len(last.calls) IN
        /\ n <= Len(conns)
        /\ \A i \in 1..n : last.calls[i].conn = i /\ last.calls[i].func = last.op
        /\ \A i \in 1..(n - 1) : Tolerated(last.calls[i].out)
        /\ IF n > 0 /\ ~Tolerated(last.calls[n].out)
           THEN PassedThrough(last.calls[n].out)
           ELSE /\ n = Len(conns)
                /\ last.result.kind = "return"
                /\ last.result.val =
                     search_property(Joined(last.calls), last.args.search_key,
                                     last.args.search_value)

C6_Witness ==
    /\ last.op = "volumes"
    /\ last.args.search_key = "id"
    /\ last.args.search_value = 2
    /\ Len(conns) = 2
    /\ last.calls[1].out = LsmError("NO_SUPPORT", ConnName(1))
    /\ last.result = Return(<<Obj(2, 2)>>)

\* the System objects the last plugin_register was given by the connections
RECURSIVE Reported(_)
Reported(calls) ==
    IF calls = <<>> THEN <<>>
    ELSE (IF Head(calls).func = "systems" /\ Head(calls).out.kind = "return"
          THEN [i \in DOMAIN Head(calls).out.val |->
                  [id |-> Head(calls).out.val[i], conn |-> Head(calls).conn]]
          ELSE <<>>)
         \o Reported(Tail(calls))

\* the entries of a systems list that no later entry overwrites
RECURSIVE KeepLast(_)
KeepLast(list) ==
    IF list = <<>> THEN <<>>
    ELSE (IF \E j \in 2..Len(list) : list[j].id = list[1].id
          THEN <<>> ELSE <<list[1]>>)
         \o KeepLast(Tail(list))

\* C7: after a successful plugin_register, systems() returns the systems of
\* every connection in connection-activation order, none dropped and none
\* twice, except that of two systems with the same identifier only the one
\* of the later connection is kept.
C7_SystemsUnion ==
    [][(/\ last.op = "plugin_register"
        /\ last.result.kind = "return"
        /\ registers = 1
        /\ last'.op = "systems") =>
          last'.result = Return(KeepLast(Reported(last.calls)))]_vars

\* the operand of the last system-scoped call
Operand == last.args[1]

\* C8: a system-scoped operation whose operand's system identifier is no key
\* of the routing table fails with NOT_FOUND_SYSTEM and calls no connection;
\* otherwise the owning connection alone is called, once, with the operand,
\* the policy (for the cache updates) and the flags, and what it returns or
\* raises comes back unchanged.
C8_SystemScoped ==
    last.op \in ExecOps =>
        LET sys_id == IF last.op \in SystemOps THEN Operand.id ELSE Operand.system_id
        IN IF sys_id \notin Keys(sys_con_map)
           THEN /\ last.result = LsmError("NOT_FOUND_SYSTEM", Router)
                /\ last.calls = <<>>
           ELSE /\ Len(last.calls) = 1
                /\ last.calls[1].conn = sys_con_map[sys_id]
                /\ last.calls[1].func = last.op
                /\ last.calls[1].args[2] = Operand
                /\ last.calls[1].args[Len(last.calls[1].args)] = last.args[Len(last.args)]
                /\ last.op \in CacheOps =>
                     /\ last.calls[1].args[3] = CacheParam(last.op)
                     /\ last.calls[1].args[4] = last.args[2]
                /\ PassedThrough(last.calls[1].out)

C8_Witness ==
    /\ last.op = "volume_delete"
    /\ Len(conns) = 2
    /\ Operand.system_id \in Keys(sys_con_map)
    /\ sys_con_map[Operand.system_id] = 2
    /\ last.result.kind = "return"
    /\ last.result.val[1] = 2

\* C9: volume_raid_create with an empty disk list fails with
\* INVALID_ARGUMENT and calls no connection, whatever the routing table
\* holds; with disks, the connection called is the one the routing table
\* binds to the first disk's system identifier, whatever the other disks.
C9_RaidCreate ==
    last.op = "volume_raid_create" =>
        LET disk_list == last.args[3]
        IN IF disk_list = <<>>
           THEN /\ last.result = LsmError("INVALID_ARGUMENT", Router)
                /\ last.calls = <<>>
           ELSE IF disk_list[1].system_id \in Keys(sys_con_map)
           THEN /\ Len(last.calls) = 1
                /\ last.calls[1].conn = sys_con_map[disk_list[1].system_id]
                /\ last.calls[1].args[6] = disk_list
           ELSE /\ last.result = LsmError("NOT_FOUND_SYSTEM", Router)
                /\ last.calls = <<>>

C9_Witness ==
    /\ last.op = "volume_raid_create"
    /\ Len(last.args[3]) = 2
    /\ last.args[3][1].system_id \in Keys(sys_con_map)
    /\ last.args[3][2].system_id \in Keys(sys_con_map)
    /\ sys_con_map[last.args[3][1].system_id] /= sys_con_map[last.args[3][2].system_id]
    /\ last.result.kind = "return"

\* C10: an export operation fails with NO_SUPPORT and calls no connection
\* when plugin_register opened no nfs connection; when it opened one, the
\* call goes to that connection alone with the arguments it was given and
\* what the connection returns or raises comes back as it is.
C10_Exports ==
    last.op \in ExportOps =>
        IF \A c \in DOMAIN conns : conns[c] /= "nfs"
        THEN /\ last.result = LsmError("NO_SUPPORT", Router)
             /\ last.calls = <<>>
        ELSE /\ Len(last.calls) = 1
             /\ conns[last.calls[1].conn] = "nfs"
             /\ last.calls[1].func = last.op
             /\ last.calls[1].args = last.args
             /\ last.calls[1].out.kind /= "Exception" => last.result = last.calls[1].out

C10_Witness ==
    /\ last.op = "export_fs"
    /\ Len(conns) = 2
    /\ conns[2] = "nfs"
    /\ last.result.kind = "return"
    /\ last.result.val[1] = 2

\* a plugin_register call by root without a usable override whose inventory
\* lists no catalogued kernel module and no smartpqi: nothing is selected
NothingSelected(args) ==
    /\ args.euid = 0
    /\ "only" \notin DOMAIN args.uri_vars
    /\ args.hw.cur_kmods \cap (DOMAIN _KMOD_PLUGIN_MAP \cup {"smartpqi"}) = {}

\* C11: when selection yields no backend, plugin_register fails with
\* NO_SUPPORT before any open attempt: no Client(...) call is made and
\* self.conns is left as it was.
C11_NothingSelected ==
    [][ (registers' = registers + 1 /\ NothingSelected(last'.args))
        => /\ last'.result = LsmError("NO_SUPPORT", Router)
           /\ last'.calls = <<>>
           /\ conns' = conns ]_vars

C11_Witness ==
    /\ last.op = "plugin_register"
    /\ NothingSelected(last.args)
    /\ last.args.hw.cur_kmods = {"ext4"}
    /\ last.result = LsmError("NO_SUPPORT", Router)
    /\ last.calls = <<>>
    /\ conns = <<>>

\* C12: in every reachable state, whatever register, unregister and dispatch
\* calls were made and however they ended, every key of self.sys_con_map is
\* bound to a connection that is a member of self.conns.
C12_RoutingTableInConns ==
    \A s \in Keys(sys_con_map) : sys_con_map[s] \in DOMAIN conns

\* a routed call made after a register that bound a system and a completed
\* unregister
C12_Witness ==
    /\ Keys(sys_con_map) /= {}
    /\ unregistered
    /\ last.op = "volume_delete"
    /\ C12_RoutingTableInConns

\* the backend call that ended the last router call, if it made any
FinalOut == IF last.calls = <<>> THEN NoErr ELSE last.calls[Len(last.calls)].out

Taxonomy(op) ==
    last.op = op =>
      /\ last.result.kind \in {"return", "LsmError"}
      /\ FinalOut.kind = "Exception" => last.result = LsmError("PLUGIN_BUG", FinalOut.src)
      /\ last.result.kind = "LsmError" /\ last.result.code /= "PLUGIN_BUG"
           => last.result.src = Router \/ last.result = FinalOut

\* C13: every public operation of the router returns a value or fails with
\* an LsmError: an LsmError raised inside propagates unchanged, and any other
\* exception raised inside any public operation, the export operations
\* included, is rewrapped as LsmError(PLUGIN_BUG).
C13_ErrorTaxonomy ==
    \A op \in {"plugin_register", "plugin_unregister", "job_status", "job_free",
               "plugin_info", "time_out_set", "time_out_get", "systems",
               "volume_raid_create"}
              \cup QueryFuncs \cup ExecOps \cup ExportOps :
      Taxonomy(op)

\* the same for the operations that carry @_handle_errors (all but export_auth)
C13_Decorated ==
    \A op \in {"plugin_register", "plugin_unregister", "job_status", "job_free",
               "plugin_info", "time_out_set", "time_out_get", "systems",
               "volume_raid_create"}
              \cup QueryFuncs \cup ExecOps \cup (ExportOps \ {"export_auth"}) :
      Taxonomy(op)

\* time_out_set(ms) stores ms in the router, and a call that succeeded has
\* called every connection once, in order, each now holding ms
StoredAndPushed ==
    last.op = "time_out_set" /\ last.result.kind = "return" =>
      /\ _tmo_ms = last.args[1]
      /\ Len(last.calls) = Len(conns)
      /\ \A c \in DOMAIN conns :
           /\ last.calls[c] = Call(c, "time_out_set", <<last.args[1], FLAG_RSVD>>, NoErr)
           /\ conn_tmo[c] = last.args[1]

GetReturns(given) ==
    last.op = "time_out_get" =>
      last.result = Return(<<IF given = None THEN DefaultTmo ELSE given>>)

\* C14 as stated: time_out_set(ms) stores ms and pushes it to every
\* connection, and time_out_get returns the value given to the most recent
\* time_out_set, or the default when time_out_set was never called, with or
\* without connections.
C14_GetReturnsLastSet ==
    /\ StoredAndPushed
    /\ GetReturns(tmo_given.set)

\* C14 amended: time_out_get returns the timeout most recently given by either
\* time_out_set or plugin_register (stored at local.py:88 before any check),
\* or the default when neither was ever called.
C14_GetReturnsLastGiven ==
    /\ StoredAndPushed
    /\ GetReturns(tmo_given.any)

\* time_out_set(3000), then a register with timeout 5000 that opened a
\* connection, then time_out_get
C14_Witness ==
    /\ last.op = "time_out_get"
    /\ tmo_given.set = DefaultTmo
    /\ tmo_given.any = 5000
    /\ conns /= <<>>
    /\ last.result = Return(<<5000>>)

\* a successful time_out_set on two connections that held another value
C14_WitnessPushed ==
    /\ last.op = "time_out_set"
    /\ last.result = NoErr
    /\ Len(conns) = 2
    /\ last.args[1] = DefaultTmo
    /\ \A c \in DOMAIN conns : conn_tmo[c] = DefaultTmo

\* C15: a plugin_register call made without administrative privilege
\* (euid /= 0) fails with INVALID_ARGUMENT raised by the router itself, makes
\* no Client(...) call nor any other backend call, and leaves self.conns as
\* it was.
C15_RootOnly ==
    [][ (registers' = registers + 1 /\ last'.args.euid /= 0)
        => /\ last'.result = LsmError("INVALID_ARGUMENT", Router)
           /\ last'.calls = <<>>
           /\ conns' = conns
           /\ sys_con_map' = sys_con_map ]_vars

\* a register by a non-root caller on a router that already holds a connection
C15_Witness ==
    /\ last.op = "plugin_register"
    /\ last.args.euid = 1000
    /\ last.result = LsmError("INVALID_ARGUMENT", Router)
    /\ last.calls = <<>>
    /\ registers = 2
    /\ conns /= <<>>

NoDuplicateBackend ==
    \A i, j \in DOMAIN conns : i /= j => conns[i] /= conns[j]

\* C16: in every reachable state self.conns holds at most one connection per
\* backend, whether several kernel modules select the same backend within one
\* plugin_register call or plugin_register is called more than once.
C16_OneConnectionPerBackend == NoDuplicateBackend

\* the same for a router on which plugin_register was called at most once
C16_WithinOneRegister == registers <= 1 => NoDuplicateBackend

\* aacraid and smartpqi both select arcconf and one connection is opened
C16_WitnessOneRegister ==
    /\ last.op = "plugin_register"
    /\ last.args.hw.cur_kmods = {"aacraid", "smartpqi"}
    /\ conns = <<"arcconf">>
    /\ registers = 1

\* a step of __del__ in which no teardown call failed leaves every connection
\* of self.conns torn down at least once
TornDownAfter ==
    last'.result = NoErr => \A c \in DOMAIN conns' : teardowns'[c] >= 1

\* C17: destruction runs unregister if it was not already done: after any
\* sequence of register and unregister calls followed by destruction every
\* connection the router opened has been torn down, and destruction right
\* after a completed unregister makes no teardown call.
C17_DestructionUnregisters ==
    [][ (alive /\ ~alive')
        => /\ TornDownAfter
           /\ (last.op = "plugin_unregister" /\ last.result = NoErr)
                => (last'.calls = <<>> /\ teardowns' = teardowns) ]_vars

\* the same for a destruction that finds self.unregistered false
C17_WhenFlagClear ==
    [][ (alive /\ ~alive' /\ ~unregistered) => TornDownAfter ]_vars

\* the Client(...) calls of the last router call and the plugins they named
ClientCalls == { i \in DOMAIN last.calls : last.calls[i].func = "Client" }

Attempted == { last.calls[i].args[1] : i \in ClientCalls }

\* the open loop was left by an exception of Client(...)
OpenAborted ==
    /\ last.calls /= <<>>
    /\ FinalOut.kind /= "return"
    /\ last.calls[Len(last.calls)].func = "Client"
    /\ last.result = _handle_errors(FinalOut)

\* C18: with smartpqi listed and no override, the backend selected for it is
\* arcconf when the arcconf tool is found, else hpsa when the hpsa tool is
\* found, else arcconf: for each of the four probe results exactly that one
\* backend is opened for smartpqi, next to those the catalogue selects.
C18_Smartpqi ==
    ( /\ last.op = "plugin_register"
      /\ last.args.euid = 0
      /\ "only" \notin DOMAIN last.args.uri_vars
      /\ "smartpqi" \in last.args.hw.cur_kmods )
    => LET hw == last.args.hw
           pick == IF hw.find_arcconf THEN "arcconf"
                   ELSE IF hw.find_sacli THEN "hpsa" ELSE "arcconf"
           catalogued == { _KMOD_PLUGIN_MAP[k] :
                             k \in DOMAIN _KMOD_PLUGIN_MAP \cap hw.cur_kmods }
       IN /\ Attempted \subseteq catalogued \cup {pick}
          /\ Cardinality(ClientCalls) = Cardinality(Attempted)
          /\ ~OpenAborted => Attempted = catalogued \cup {pick}

\* only the hpsa tool is found: smartpqi is served by hpsa alone
C18_Witness ==
    /\ last.op = "plugin_register"
    /\ last.args.hw = [cur_kmods |-> {"smartpqi"}, find_arcconf |-> FALSE,
                       find_sacli |-> TRUE]
    /\ Attempted = {"hpsa"}
    /\ conns = <<"hpsa">>
    /\ last.result = NoErr

\* both tools are found: arcconf wins
C18_WitnessBoth ==
    /\ last.op = "plugin_register"
    /\ last.args.hw = [cur_kmods |-> {"smartpqi"}, find_arcconf |-> TRUE,
                       find_sacli |-> TRUE]
    /\ Attempted = {"arcconf"}
    /\ conns = <<"arcconf">>

\* the system id a router call l routes on, None when it routes on none
RoutedId(l) ==
    IF l.op \in QueryFuncs
    THEN IF l.args.search_key = "system_id" THEN l.args.search_value ELSE None
    ELSE IF l.op \in SystemOps THEN l.args[1].id
    ELSE IF l.op \in ExecOps THEN l.args[1].system_id
    ELSE IF l.op = "volume_raid_create" /\ l.args[3] /= <<>> THEN l.args[3][1].system_id
    ELSE None

\* the connections whose systems() reported id s during the router call l
Reporters(l, s) ==
    { l.calls[i].conn :
        i \in { j \in DOMAIN l.calls : /\ l.calls[j].func = "systems"
                                       /\ l.calls[j].out.kind = "return"
                                       /\ s \in Range(l.calls[j].out.val) } }

\* C19: when two connections report the same system id during
\* plugin_register, sys_con_map binds the id to the later connection of
\* self.conns, and a system-scoped operation or system_id query for that id
\* made afterwards calls that connection and no other.
C19_LaterConnectionWins ==
    [][ LET s == RoutedId(last')
            reporters == Reporters(last, s)
        IN ( /\ last.op = "plugin_register"
             /\ dispatched' = dispatched + 1
             /\ s /= None
             /\ Cardinality(reporters) >= 2 )
           => LET later == CHOOSE c \in reporters : \A d \in reporters : d <= c
              IN /\ sys_con_map[s] = later
                 /\ Len(last'.calls) = 1
                 /\ last'.calls[1].conn = later ]_vars

\* both connections reported the operand's system and the second is called
C19_Witness ==
    /\ last.op = "volume_delete"
    /\ Len(conns) = 2
    /\ \E i, j \in DOMAIN syss :
         /\ syss[i] = [id |-> Operand.system_id, conn |-> 1]
         /\ syss[j] = [id |-> Operand.system_id, conn |-> 2]
    /\ Len(last.calls) = 1
    /\ last.calls[1].conn = 2

\* the same for a query by system_id
C19_WitnessQuery ==
    /\ last.op = "volumes"
    /\ last.args.search_key = "system_id"
    /\ \E i, j \in DOMAIN syss :
         /\ syss[i] = [id |-> last.args.search_value, conn |-> 1]
         /\ syss[j] = [id |-> last.args.search_value, conn |-> 2]
    /\ Len(last.calls) = 1
    /\ last.calls[1].conn = 2

\* in every state an id that was ever reported is bound to the connection of
\* its most recent report in self.syss
C19_BoundToLastReport ==
    \A s \in SysIds :
      LET at == { i \in DOMAIN syss : syss[i].id = s }
      IN IF at = {} THEN sys_con_map[s] = None
         ELSE sys_con_map[s] = syss[CHOOSE i \in at : \A j \in at : j <= i].conn

\* C20: time_out_set is not atomic on failure.  When the k-th connection
\* rejects the value the call fails with that connection's error, the
\* connections before k hold the new value, those after k were not called and
\* keep the value they held, the router has stored the new value, and a
\* time_out_get made next returns it.
C20_TimeoutNotAtomic ==
    [][ /\ ( /\ dispatched' = dispatched + 1
             /\ last'.op = "time_out_set"
             /\ last'.result.kind = "LsmError" )
           => LET k == Len(last'.calls)
                  ms == last'.args[1]
              IN /\ k \in DOMAIN conns
                 /\ last'.calls[k].conn = k
                 /\ last'.result = last'.calls[k].out
                 /\ \A c \in 1..(k - 1) :
                      /\ last'.calls[c] = Call(c, "time_out_set", <<ms, FLAG_RSVD>>, NoErr)
                      /\ conn_tmo'[c] = ms
                 /\ \A c \in (k + 1)..Len(conns) : conn_tmo'[c] = conn_tmo[c]
                 /\ _tmo_ms' = ms
        /\ ( /\ last.op = "time_out_set"
             /\ last.result.kind = "LsmError"
             /\ dispatched' = dispatched + 1
             /\ last'.op = "time_out_get" )
           => last'.result = Return(<<last.args[1]>>) ]_vars

\* time_out_get after time_out_set(3000) was taken by the first connection
\* and rejected by the second, both opened with 5000
C20_Witness ==
    /\ last.op = "time_out_get"
    /\ tmo_given = [set |-> DefaultTmo, any |-> DefaultTmo]
    /\ conn_tmo = <<DefaultTmo, 5000>>
    /\ last.result = Return(<<DefaultTmo>>)

\* the first of two connections rejects: the second is not called
C20_WitnessFirstRejects ==
    /\ last.op = "time_out_set"
    /\ last.args[1] = DefaultTmo
    /\ Len(conns) = 2
    /\ Len(last.calls) = 1
    /\ last.result = LsmError("INVALID_ARGUMENT", ConnName(1))
    /\ conn_tmo = <<5000, 5000>>
    /\ _tmo_ms = DefaultTmo

====
